---------------------------- MODULE Spec2Model ----------------------------
(***************************************************************************)
(* kern-profile: the QEMU TCG sampling plugin (src/plugin/plugin.c).       *)
(*                                                                         *)
(* The plugin keeps one global context (ctx): the output file descriptor,  *)
(* the sample delay, the timestamp of the next sample and the width of the *)
(* target's unsigned long.  The host calls vcpu_insn_exec once per         *)
(* executed guest instruction; when the delay has expired the callback     *)
(* walks the frame-pointer chain in guest memory and appends one record    *)
(* (count byte, then count 64-bit frames) to the output file.              *)
(*                                                                         *)
(* Representation.  A C object of n bytes is the sequence of its n bytes   *)
(* in memory order.  The host is little-endian, so byte 1 of a uint64_t is *)
(* its least significant byte; `native byte order' is that order.          *)
(* Small integers (times, counts, lengths) are TLA+ integers.              *)
(*                                                                         *)
(* Indeterminate bytes.  buf (line 130) is not initialised, and the walk   *)
(* decodes bytes of it that no read has written when it reads 4 bytes and  *)
(* decodes 8.  Such a byte has whatever value the build and the process    *)
(* left on the stack; it is written Indet(k), a negative number that       *)
(* stands for the unknown value of buf[k - 1], and is carried as it is     *)
(* into frames_buf and the record.  A record with Indet bytes stands for   *)
(* every record got by putting byte values in their place.                 *)
(***************************************************************************)
EXTENDS Integers, Sequences, FiniteSets, TLC

(***************************************************************************)
(* Program constants                                                       *)
(***************************************************************************)
\* #define MAX_DEPTH 64
MAX_DEPTH == 64

\* The divisor of `ctx.sample_delay / 1000000' and `ctx.sample_delay % 1000000'.
USEC_PER_SEC == 1000000

\* sizeof(uint64_t): the size of one element of frames_buf.
FRAME_SIZE == 8

\* The register id passed to get_cpu_register_val: 5 is EBP/RBP.
REG_FRAME_PTR == 5

\* Bit 8 of EFER, tested by in_long_mode: `efer & (1 << 8)'.
EFER_BIT == 256

(***************************************************************************)
(* Bytes and fixed-width unsigned integers                                 *)
(***************************************************************************)
Byte == 0..255

\* The indeterminate value of byte k (1..8) of the uninitialised buf.
Indet(k) == -k

\* n zero bytes.
Zeros(n) == [k \in 1..n |-> 0]

\* The little-endian bytes of the small non-negative integer v, as an
\* n-byte object (v < 2^31, so bytes 5.. are zero).
LE(v, n) ==
    [k \in 1..n |->
        CASE k = 1 -> v % 256
          [] k = 2 -> (v \div 256) % 256
          [] k = 3 -> (v \div 65536) % 256
          [] k = 4 -> (v \div 16777216) % 256
          [] OTHER -> 0]

\* The integer held by an 8-byte object when it is below 2^30, else -1
\* (such an address lies outside every memory image of the model; so does
\* one with indeterminate bytes, see Junks).
SmallVal(a) ==
    IF (\A k \in 1..4 : a[k] >= 0) /\ a[4] < 64
       /\ a[5] = 0 /\ a[6] = 0 /\ a[7] = 0 /\ a[8] = 0
    THEN a[1] + 256 * a[2] + 65536 * a[3] + 16777216 * a[4]
    ELSE -1

\* uint64_t addition of a constant n < 256: a + n modulo 2^64.  The carry
\* into byte k is 1 iff byte 1 overflows and bytes 2..k-1 are all 255.
\* An indeterminate byte stays indeterminate.
Add64(a, n) ==
    [k \in 1..8 |->
        IF a[k] < 0 THEN a[k]
        ELSE IF k = 1 THEN (a[1] + n) % 256
        ELSE IF a[1] + n >= 256 /\ \A j \in 2..(k - 1) : a[j] = 255
             THEN (a[k] + 1) % 256
             ELSE a[k]]

\* `*(uint32_t *) &buf[0]' converted to uint64_t: the low 4 bytes of buf,
\* zero-extended.
LoadU32(buf) == [k \in 1..8 |-> IF k <= 4 THEN buf[k] ELSE 0]

\* `*(uint64_t *) &buf[0]': all 8 bytes of buf.
LoadU64(buf) == [k \in 1..8 |-> buf[k]]

\* C integer division and remainder (truncation toward zero), b > 0.
CDiv(a, b) == IF a >= 0 THEN a \div b ELSE -((-a) \div b)
CRem(a, b) == IF a >= 0 THEN a % b ELSE -((-a) % b)

(***************************************************************************)
(* The host's services                                                     *)
(***************************************************************************)
\* A guest memory image is [mapped, byte]: the set of mapped addresses
\* (integers) and the byte at each; every other address is unmapped.

\* cpu_memory_rw_debug(cpu, addr, ptr, len, false): copies len bytes of
\* guest memory at addr over the first len bytes of the buffer and returns
\* 0, or returns -1 when a byte of the range is unmapped.
cpu_memory_rw_debug(mem, addr, buf, len) ==
    LET base  == SmallVal(addr)
        at(k) == IF base >= 0 THEN base + k ELSE SmallVal(Add64(addr, k))
    IN  IF \A k \in 0..(len - 1) : at(k) \in mem.mapped
        THEN [err |-> 0,
              buf |-> [k \in 1..8 |->
                          IF k <= len THEN mem.byte[at(k - 1)] ELSE buf[k]]]
        ELSE [err |-> -1, buf |-> buf]

(***************************************************************************)
(* Register source                                                         *)
(***************************************************************************)
\* A CPU is [regs, efer]: regs is the byte image of env.regs[] (at REGS_OFF
\* of the CPU structure), efer the 64-bit EFER value (small integer).

\* get_cpu_register_val(cpu, id): the register of ctx.target_ulong_width
\* bytes at offset id * width of regs, widened to 64 bits.
get_cpu_register_val(width, cpu, id) ==
    [k \in 1..8 |-> IF k <= width THEN cpu.regs[id * width + k] ELSE 0]

\* in_long_mode(cpu): `return efer & (1 << 8)' as a bool.
in_long_mode(cpu) == (cpu.efer \div EFER_BIT) % 2 = 1

(***************************************************************************)
(* Clock gate (vcpu_insn_exec, lines 105-114)                              *)
(***************************************************************************)
\* gettimeofday(&tv, NULL) at wall-clock time t (microseconds since the
\* epoch): a normalised struct timeval.
gettimeofday(t) == [tv_sec |-> t \div USEC_PER_SEC, tv_usec |-> t % USEC_PER_SEC]

\* A gate that also holds back the callback at the due time itself.
NotExpired_inclusive(tv, ts) ==
    \/ tv.tv_sec < ts.tv_sec
    \/ (tv.tv_sec = ts.tv_sec /\ tv.tv_usec <= ts.tv_usec)

\* A gate that compares the seconds only.
NotExpired_seconds(tv, ts) == tv.tv_sec < ts.tv_sec

\* The condition of the early return: the delay has not expired.
NotExpired(tv, ts) ==
    \/ tv.tv_sec < ts.tv_sec
    \/ (tv.tv_sec = ts.tv_sec /\ tv.tv_usec < ts.tv_usec)

\* An advance that adds only the whole seconds of the delay.
NextSampleTs_seconds(ts, tv, delay) ==
    [tv_sec  |-> tv.tv_sec + CDiv(delay, USEC_PER_SEC),
     tv_usec |-> tv.tv_usec]

\* An advance from the previous due time instead of from now.
NextSampleTs_accumulate(ts, tv, delay) ==
    [tv_sec  |-> ts.tv_sec + CDiv(delay, USEC_PER_SEC),
     tv_usec |-> ts.tv_usec + CRem(delay, USEC_PER_SEC)]

\* An advance that copies now and adds nothing.
NextSampleTs_copy_only(ts, tv, delay) == tv

\* The three assignments to ctx.next_sample_ts of a due callback; ts is the
\* value they overwrite.
NextSampleTs(ts, tv, delay) ==
    [tv_sec  |-> tv.tv_sec + CDiv(delay, USEC_PER_SEC),
     tv_usec |-> tv.tv_usec + CRem(delay, USEC_PER_SEC)]

(***************************************************************************)
(* Stack walk (vcpu_insn_exec, lines 119-158)                              *)
(***************************************************************************)
\* uint8_t ptr_width = long_mode ? 8 : 4;
PtrWidth(long_mode) == IF long_mode THEN 8 ELSE 4

\* A loop that runs one round too many.
LoopCond_inclusive(i) == i <= MAX_DEPTH

\* The condition of the for loop.
LoopCond(i) == i < MAX_DEPTH

\* The address of the return-address slot: frame_ptr + ptr_width.
RetSlot(frame_ptr, ptr_width) == Add64(frame_ptr, ptr_width)

\* The length passed to both calls of cpu_memory_rw_debug.
ReadLen(width, ptr_width) == width

\* The test of an earlier revision, which took the return value for a
\* success flag.
ReadFailed_inverted(err) == err = 0

\* `if (err) break;' after each read.
ReadFailed(err) == err # 0

\* The value taken from buf after a read, by mode.
Decode(long_mode, buf) == IF long_mode THEN LoadU64(buf) ELSE LoadU32(buf)

\* The state of the loop: the index i, frame_ptr, the elements of
\* frames_buf assigned so far (stored), the contents of buf, the number of
\* calls of cpu_memory_rw_debug (nreads), and stop: "run" while the loop
\* runs, else why it ended ("depth": the loop condition, "ret_fail" and
\* "fp_fail": the break after the first and the second read).
WalkState(i, frame_ptr, stored, buf, nreads, stop) ==
    [i |-> i, frame_ptr |-> frame_ptr, stored |-> stored, buf |-> buf,
     nreads |-> nreads, stop |-> stop]

\* One test of the loop condition and, when it holds, one execution of the
\* loop body followed by ++i.
WalkBody(mem, width, long_mode, ws) ==
    IF ~LoopCond(ws.i)
    THEN [ws EXCEPT !.stop = "depth"]
    ELSE
      LET ptr_width == PtrWidth(long_mode)
          r1 == cpu_memory_rw_debug(mem, RetSlot(ws.frame_ptr, ptr_width),
                                    ws.buf, ReadLen(width, ptr_width))
      IN  IF ReadFailed(r1.err)
          THEN [ws EXCEPT !.stop = "ret_fail", !.nreads = @ + 1]
          ELSE
            LET stored1 == Append(ws.stored, Decode(long_mode, r1.buf))
                r2 == cpu_memory_rw_debug(mem, ws.frame_ptr, r1.buf,
                                          ReadLen(width, ptr_width))
            IN  IF ReadFailed(r2.err)
                THEN WalkState(ws.i, ws.frame_ptr, stored1, r1.buf,
                               ws.nreads + 2, "fp_fail")
                ELSE WalkState(ws.i + 1, Decode(long_mode, r2.buf), stored1,
                               r2.buf, ws.nreads + 2, "run")

\* At most n rounds of the loop from state ws (the rounds are split in two
\* halves to keep the evaluation shallow).
RECURSIVE WalkLoop(_, _, _, _, _)
WalkLoop(mem, width, long_mode, ws, n) ==
    IF n = 0 \/ ws.stop # "run" THEN ws
    ELSE IF n = 1 THEN WalkBody(mem, width, long_mode, ws)
    ELSE WalkLoop(mem, width, long_mode,
                  WalkLoop(mem, width, long_mode, ws, n \div 2), n - n \div 2)

\* Lines 119-158: fetch the frame pointer and the mode, put eip in
\* frames_buf[0] and run the loop from i = 1 until it ends (every round
\* but the last increments i, so MAX_DEPTH + 1 rounds are enough).  junk
\* is the indeterminate content of the uninitialised buf.  In the result
\* frames is frames_buf[0..i-1], what the record is built from.
Walk(width, cpu, mem, eip, junk) ==
    LET ws == WalkLoop(mem, width, in_long_mode(cpu),
                       WalkState(1, get_cpu_register_val(width, cpu, REG_FRAME_PTR),
                                 <<eip>>, junk, 0, "run"),
                       MAX_DEPTH + 1)
    IN  [i |-> ws.i, frames |-> SubSeq(ws.stored, 1, ws.i),
         stored |-> ws.stored, stop |-> ws.stop, nreads |-> ws.nreads]

(***************************************************************************)
(* Sample encoder (vcpu_insn_exec, lines 160-171)                          *)
(***************************************************************************)
\* The bytes of the array frames_buf, element after element.
ArrayBytes(frames) ==
    [k \in 1..(FRAME_SIZE * Len(frames)) |->
        frames[((k - 1) \div FRAME_SIZE) + 1][((k - 1) % FRAME_SIZE) + 1]]

\* A vector whose second entry has the length of 4-byte frames.
IoVec_narrow(i, stored) ==
    <<i % 256>> \o SubSeq(ArrayBytes(stored), 1, i * 4)

\* The bytes the two iovec entries describe: v[0] is the one byte of i,
\* v[1] the first i * sizeof(uint64_t) bytes of frames_buf.
IoVec(i, stored) ==
    <<i % 256>> \o SubSeq(ArrayBytes(stored), 1, i * FRAME_SIZE)

\* What writev(ctx.out_fd, v, 2) appends to the file when it returns n: the
\* first n bytes of the vector (n = -1: nothing).
Written(iov, n) == IF n > 0 THEN SubSeq(iov, 1, n) ELSE << >>

\* The return value of writev when the file accepts at most w.max bytes,
\* or fails with w.errno # 0.
WritevResult(iov, w) ==
    IF w.errno # 0 THEN -1
    ELSE IF w.max < Len(iov) THEN w.max ELSE Len(iov)

(***************************************************************************)
(* Argument parsing (qemu_plugin_install, lines 208-227)                   *)
(***************************************************************************)
\* A string is a sequence of one-character strings.
DigitVal(c) ==
    CASE c = "0" -> 0 [] c = "1" -> 1 [] c = "2" -> 2 [] c = "3" -> 3
      [] c = "4" -> 4 [] c = "5" -> 5 [] c = "6" -> 6 [] c = "7" -> 7
      [] c = "8" -> 8 [] c = "9" -> 9 [] OTHER -> -1

\* isspace(c) in the C locale: blank, \t, \n, \v, \f, \r (the vertical tab
\* is written "\\v": a TLA+ string has no escape for it).
IsSpace(c) == c \in {" ", "\t", "\n", "\\v", "\f", "\r"}

RECURSIVE SkipSpaces(_, _)
SkipSpaces(s, k) ==
    IF k <= Len(s) /\ IsSpace(s[k]) THEN SkipSpaces(s, k + 1) ELSE k

\* The digits atoi converts: those from position k up to the first character
\* that is not a digit.
RECURSIVE DigitsFrom(_, _)
DigitsFrom(s, k) ==
    IF k > Len(s) \/ DigitVal(s[k]) < 0 THEN << >>
    ELSE <<DigitVal(s[k])>> \o DigitsFrom(s, k + 1)

\* ds without its leading zeros.
RECURSIVE Significant(_)
Significant(ds) ==
    IF ds # << >> /\ Head(ds) = 0 THEN Significant(Tail(ds)) ELSE ds

\* The decimal digits of LONG_MAX = 2^63 - 1, the largest value of the long
\* in which the conversion is made.
LongMaxDigits == <<9,2,2,3,3,7,2,0,3,6,8,5,4,7,7,5,8,0,7>>

\* Lexicographic a > b for digit strings of the same length.
RECURSIVE DigitsGreater(_, _)
DigitsGreater(a, b) ==
    IF a = << >> THEN FALSE
    ELSE IF Head(a) # Head(b) THEN Head(a) > Head(b)
    ELSE DigitsGreater(Tail(a), Tail(b))

\* The magnitude ds does not fit the long: above LONG_MAX, or, for a
\* negative number, above LONG_MAX + 1.
LongOverflow(ds, negative) ==
    LET sig == Significant(ds)
    IN  \/ Len(sig) > Len(LongMaxDigits)
        \/ /\ Len(sig) = Len(LongMaxDigits)
           /\ DigitsGreater(sig, LongMaxDigits)
           /\ ~(negative /\ sig = [LongMaxDigits EXCEPT ![Len(LongMaxDigits)] = 8])

\* The low 32 bits of the number whose digits are ds[k..], after acc, kept
\* as two 16-bit halves.
RECURSIVE AtoiDigits(_, _, _)
AtoiDigits(ds, k, acc) ==
    IF k > Len(ds) THEN acc
    ELSE LET lo == acc.lo * 10 + ds[k]
         IN  AtoiDigits(ds, k + 1,
                        [hi |-> (acc.hi * 10 + lo \div 65536) % 65536,
                         lo |-> lo % 65536])

\* The int whose 32 bits are those of the long u (u = hi * 2^16 + lo) or of
\* -u.
IntOfBits(u, negative) ==
    IF ~negative
    THEN IF u.hi < 32768 THEN u.hi * 65536 + u.lo
         ELSE (u.hi - 65536) * 65536 + u.lo
    ELSE IF u.hi < 32768 \/ (u.hi = 32768 /\ u.lo = 0)
         THEN (-u.hi) * 65536 - u.lo
         ELSE (65535 - u.hi) * 65536 + (65536 - u.lo)

\* atoi(val), as the C library does it, (int) strtol(val, NULL, 10):
\* optional white space, an optional sign, then the leading digits; 0 when
\* there is no digit.  The long saturates at LONG_MAX and LONG_MIN and the
\* conversion to int keeps its low 32 bits.
atoi(s) ==
    LET k0  == SkipSpaces(s, 1)
        neg == k0 <= Len(s) /\ s[k0] = "-"
        k   == IF k0 <= Len(s) /\ s[k0] \in {"-", "+"} THEN k0 + 1 ELSE k0
        ds  == DigitsFrom(s, k)
    IN  IF LongOverflow(ds, neg) THEN (IF neg THEN 0 ELSE -1)
        ELSE IntOfBits(AtoiDigits(ds, 1, [hi |-> 0, lo |-> 0]), neg)

\* strchr(name, '='): the position of the first '=' of the argument, 0 (a
\* null pointer) when it has none.
RECURSIVE strchr(_, _, _)
strchr(s, c, k) ==
    IF k > Len(s) THEN 0
    ELSE IF s[k] = c THEN k
    ELSE strchr(s, c, k + 1)

\* The argument loop over argv from argument k on, with the values parsed
\* so far.  Each argument is cut at its first '='; the write through
\* name_end of an argument that has none is a write through a null pointer,
\* which ends the process (crash).  err is set at the first unknown name.
RECURSIVE ParseArgs(_, _, _)
ParseArgs(argv, k, acc) ==
    IF k > Len(argv) THEN acc
    ELSE LET name_end == strchr(argv[k], "=", 1)
             name     == SubSeq(argv[k], 1, name_end - 1)
             val      == SubSeq(argv[k], name_end + 1, Len(argv[k]))
         IN  IF name_end = 0 THEN [acc EXCEPT !.crash = TRUE]
             ELSE IF name = <<"o","u","t">>
                  THEN ParseArgs(argv, k + 1, [acc EXCEPT !.out_path = val])
             ELSE IF name = <<"d","e","l","a","y">>
                  THEN ParseArgs(argv, k + 1,
                                 [acc EXCEPT !.sample_delay = atoi(val)])
             ELSE [acc EXCEPT !.err = TRUE]

\* Default values: out_path = "qemu-profile", sample_delay = 10.
DefaultArgs ==
    [out_path |-> <<"q","e","m","u","-","p","r","o","f","i","l","e">>,
     sample_delay |-> 10, err |-> FALSE, crash |-> FALSE]

\* sizeof(target_ulong) by info->target_name; 0: unsupported target.
TargetWidth(target_name) ==
    IF target_name = "x86_64" THEN 8
    ELSE IF target_name = "i386" THEN 4
    ELSE 0

(***************************************************************************)
(* State                                                                   *)
(***************************************************************************)
VARIABLES
    phase,               \* "loaded", "installed", "failed", "crashed", "exited"
    target_ulong_width,  \* ctx.target_ulong_width
    sample_delay,        \* ctx.sample_delay
    next_sample_ts,      \* ctx.next_sample_ts
    out_fd,              \* ctx.out_fd
    sink,                \* the output file: state, path, opens, closes
    out,                 \* the bytes of the output file
    callbacks,           \* the callbacks registered with the host
    clock,               \* wall-clock time, microseconds
    warnings,            \* lines written to stderr by the callback
    ncalls,              \* callbacks delivered so far
    sample_clock,        \* clock of the latest sample, -1 before the first
    last,                \* the latest callback: its inputs and what it did
    loader,              \* the call of qemu_plugin_install and its return value
    inv,                 \* per CPU, the invocation of vcpu_insn_exec in progress
    gate_log             \* what the runs on several CPUs did at the gate

vars == <<phase, target_ulong_width, sample_delay, next_sample_ts, out_fd,
          sink, out, callbacks, clock, warnings, ncalls, sample_clock, last,
          loader, inv, gate_log>>

ctxvars == <<target_ulong_width, sample_delay, next_sample_ts, out_fd>>

\* The CPU indexes the host passes to vcpu_insn_exec.
VCpus == {0, 1}

\* No invocation in progress on a CPU.
Idle == [pc |-> "idle"]

\* The calls a callback made: of get_cpu_register_val, in_long_mode,
\* cpu_memory_rw_debug and writev.  None before the gate test; for a sample
\* one of each, and the reads of the walk.
NoIo == [reg_reads |-> 0, mode_queries |-> 0, mem_reads |-> 0, writes |-> 0]
SampleIo(res) ==
    [reg_reads |-> 1, mode_queries |-> 1, mem_reads |-> res.nreads, writes |-> 1]

\* No run has passed the gate.
NoRuns == [passed |-> {}, reused |-> FALSE, raced |-> FALSE]

\* No callback delivered yet.
NoCall == [called |-> FALSE, fired |-> FALSE]

\* qemu_plugin_install not called yet.
NoInstall == [called |-> FALSE, crashed |-> FALSE, ret |-> 0]

\* install does not return: the argument loop ended the process.
InstallCrashes(target_name, args) ==
    TargetWidth(target_name) # 0 /\ args.crash

\* The value install returns for target_name, argv and the errno of open(),
\* when it returns.
InstallRet(target_name, args, open_errno) ==
    IF TargetWidth(target_name) = 0 \/ args.err THEN -1
    ELSE IF open_errno # 0 THEN 1
    ELSE 0

(***************************************************************************)
(* Operations                                                              *)
(***************************************************************************)
\* qemu_plugin_install(id, info, argc, argv); open_errno is the errno of
\* open() (0: the file is created and truncated).  ret is its return value;
\* crashed: it did not return, the process was ended in the argument loop.
qemu_plugin_install(target_name, argv, open_errno) ==
    /\ phase = "loaded"
    /\ LET width == TargetWidth(target_name)
           args  == ParseArgs(argv, 1, DefaultArgs)
       IN  IF width = 0
           THEN /\ phase' = "failed"
                /\ UNCHANGED <<ctxvars, sink, out, callbacks>>
           ELSE IF args.crash
           THEN /\ phase' = "crashed"
                /\ target_ulong_width' = width
                /\ UNCHANGED <<sample_delay, next_sample_ts, out_fd, sink,
                               out, callbacks>>
           ELSE IF args.err
           THEN /\ phase' = "failed"
                /\ target_ulong_width' = width
                /\ UNCHANGED <<sample_delay, next_sample_ts, out_fd, sink,
                               out, callbacks>>
           ELSE IF open_errno # 0
           THEN /\ phase' = "failed"
                /\ target_ulong_width' = width
                /\ out_fd' = -1
                /\ UNCHANGED <<sample_delay, next_sample_ts, sink, out,
                               callbacks>>
           ELSE /\ phase' = "installed"
                /\ target_ulong_width' = width
                /\ out_fd' = 3
                /\ sink' = [state |-> "open", path |-> args.out_path,
                            opens |-> sink.opens + 1, closes |-> sink.closes]
                /\ out' = << >>
                /\ sample_delay' = args.sample_delay
                /\ next_sample_ts' = gettimeofday(clock)
                /\ callbacks' = {"vcpu_tb_trans", "plugin_exit"}
    /\ loader' = [called |-> TRUE, target_name |-> target_name, argv |-> argv,
                   open_errno |-> open_errno,
                   crashed |-> InstallCrashes(target_name,
                                              ParseArgs(argv, 1, DefaultArgs)),
                   ret |-> InstallRet(target_name,
                                      ParseArgs(argv, 1, DefaultArgs), open_errno)]
    /\ UNCHANGED <<clock, warnings, ncalls, sample_clock, last, inv, gate_log>>

\* vcpu_insn_exec(cpu_index, eip), delivered d microseconds after the
\* previous event.  cpu and mem are the state of the guest CPU and memory,
\* junk the indeterminate content of buf, w the behaviour of the file.
vcpu_insn_exec(d, cpu, mem, eip, junk, w) ==
    /\ phase = "installed"
    /\ "vcpu_tb_trans" \in callbacks
    /\ LET t  == clock + d
           tv == gettimeofday(t)
       IN  /\ clock' = t
           /\ ncalls' = ncalls + 1
           /\ IF NotExpired(tv, next_sample_ts)
              THEN /\ last' = [called |-> TRUE, fired |-> FALSE, now |-> t,
                               prev |-> sample_clock, io |-> NoIo]
                   /\ UNCHANGED <<next_sample_ts, out, warnings, sample_clock>>
              ELSE LET res == Walk(target_ulong_width, cpu, mem, eip, junk)
                       iov == IoVec(res.i, res.stored)
                       n   == WritevResult(iov, w)
                   IN  /\ next_sample_ts' =
                              NextSampleTs(next_sample_ts, tv, sample_delay)
                       /\ out' = out \o Written(iov, n)
                       /\ warnings' = IF w.errno # 0 THEN warnings + 1
                                      ELSE warnings
                       /\ sample_clock' = t
                       /\ last' = [called |-> TRUE, fired |-> TRUE, now |-> t,
                                   prev |-> sample_clock, eip |-> eip,
                                   cpu |-> cpu, mem |-> mem, res |-> res,
                                   iov |-> iov, n |-> n, errno |-> w.errno,
                                   offset |-> Len(out), io |-> SampleIo(res)]
    /\ UNCHANGED <<phase, target_ulong_width, sample_delay, out_fd, sink,
                   callbacks, loader, inv, gate_log>>

\* An exit callback that leaves the file open.
plugin_exit_leak ==
    /\ phase = "installed"
    /\ "plugin_exit" \in callbacks
    /\ phase' = "exited"
    /\ UNCHANGED <<ctxvars, sink, out, callbacks, clock, warnings, ncalls,
                   sample_clock, last, loader, inv, gate_log>>

\* plugin_exit(id, p): the host's atexit callback.
plugin_exit ==
    /\ phase = "installed"
    /\ "plugin_exit" \in callbacks
    /\ phase' = "exited"
    /\ sink' = [sink EXCEPT !.state = "closed", !.closes = sink.closes + 1]
    /\ UNCHANGED <<ctxvars, out, callbacks, clock, warnings, ncalls,
                   sample_clock, last, loader, inv, gate_log>>

(***************************************************************************)
(* vcpu_insn_exec, statement by statement                                  *)
(***************************************************************************)
\* The callback runs with no lock held, so the host may run it for one CPU
\* between two statements of its run for another.  inv[c] is the run in
\* progress for CPU c: pc is the part it executes next, and the other
\* fields are its arguments and locals.  The parts, in program order:
\*   "check"      lines 106-111  gettimeofday and the gate test
\*   "advance"    lines 112-114  the assignments to ctx.next_sample_ts
\*   "registers"  lines 119-123  frame pointer, mode, pointer width
\*   "walk"       lines 126-158  the loop over the frames
\*   "write"      lines 160-173  iovec, writev, warning

\* The part that follows part pc in the text of the function.
StepAfter(pc) ==
    CASE pc = "check"     -> "advance"
      [] pc = "advance"   -> "registers"
      [] pc = "registers" -> "walk"
      [] pc = "walk"      -> "write"
      [] pc = "write"     -> "idle"

\* Lines 106-111 for CPU c, d microseconds after the previous event: return
\* when the delay has not expired, else go on.  seen is the value of
\* ctx.next_sample_ts the test read.
insn_check(c, d, cpu, mem, eip, w) ==
    /\ phase = "installed"
    /\ "vcpu_tb_trans" \in callbacks
    /\ inv[c].pc = "idle"
    /\ LET t  == clock + d
           tv == gettimeofday(t)
       IN  /\ clock' = t
           /\ ncalls' = ncalls + 1
           /\ IF NotExpired(tv, next_sample_ts)
              THEN /\ last' = [called |-> TRUE, fired |-> FALSE, now |-> t,
                               prev |-> sample_clock, io |-> NoIo]
                   /\ UNCHANGED inv
              ELSE /\ inv' = [inv EXCEPT ![c] =
                              [pc |-> StepAfter("check"), t |-> t, tv |-> tv,
                               seen |-> next_sample_ts, prev |-> sample_clock,
                               cpu |-> cpu, mem |-> mem, eip |-> eip,
                               w |-> w, done |-> <<"check">>,
                               ts_at |-> << >>]]
                   /\ UNCHANGED last
    /\ UNCHANGED <<phase, ctxvars, sink, out, callbacks, warnings,
                   sample_clock, loader, gate_log>>

\* The record of CPU c's run after part pc, which leaves the fields in
\* `more' set: done lists the parts executed, ts_at (kept for the runs of
\* one CPU alone) the value of ctx.next_sample_ts at the start of each part
\* after the test.
AfterStep(c, pc, more) ==
    LET r == [inv[c] EXCEPT !.pc = StepAfter(pc), !.done = Append(@, pc)]
    IN  [inv EXCEPT ![c] =
            more @@ (IF "ts_at" \in DOMAIN r
                     THEN [r EXCEPT !.ts_at = Append(@, next_sample_ts)]
                     ELSE r)]

\* Lines 112-114.
insn_advance(c) ==
    /\ inv[c].pc = "advance"
    /\ next_sample_ts' = NextSampleTs(next_sample_ts, inv[c].tv, sample_delay)
    /\ inv' = AfterStep(c, "advance", << >>)
    /\ UNCHANGED <<phase, target_ulong_width, sample_delay, out_fd, sink, out,
                   callbacks, clock, warnings, ncalls, sample_clock, last,
                   loader, gate_log>>

\* Lines 119-123.
insn_registers(c) ==
    /\ inv[c].pc = "registers"
    /\ inv' = AfterStep(c, "registers",
                  [frame_ptr |-> get_cpu_register_val(target_ulong_width,
                                                      inv[c].cpu, REG_FRAME_PTR),
                   long_mode |-> in_long_mode(inv[c].cpu)])
    /\ UNCHANGED <<phase, ctxvars, sink, out, callbacks, clock, warnings,
                   ncalls, sample_clock, last, loader, gate_log>>

\* Lines 126-158; junk is the indeterminate content of buf, declared on
\* line 130.
insn_walk(c, junk) ==
    /\ inv[c].pc = "walk"
    /\ inv' = AfterStep(c, "walk",
                  [res |-> Walk(target_ulong_width, inv[c].cpu, inv[c].mem,
                                inv[c].eip, junk)])
    /\ UNCHANGED <<phase, ctxvars, sink, out, callbacks, clock, warnings,
                   ncalls, sample_clock, last, loader, gate_log>>

\* Lines 160-173.
insn_write(c) ==
    /\ inv[c].pc = "write"
    /\ LET res == inv[c].res
           iov == IoVec(res.i, res.stored)
           n   == WritevResult(iov, inv[c].w)
       IN  /\ out' = out \o Written(iov, n)
           /\ warnings' = IF inv[c].w.errno # 0 THEN warnings + 1 ELSE warnings
           /\ sample_clock' = inv[c].t
           /\ last' = [called |-> TRUE, fired |-> TRUE, now |-> inv[c].t,
                       prev |-> inv[c].prev, eip |-> inv[c].eip,
                       cpu |-> inv[c].cpu, mem |-> inv[c].mem, res |-> res,
                       iov |-> iov, n |-> n, errno |-> inv[c].w.errno,
                       offset |-> Len(out), io |-> SampleIo(res)]
    /\ inv' = AfterStep(c, "write", << >>)
    /\ UNCHANGED <<phase, ctxvars, sink, callbacks, clock, ncalls, loader,
                   gate_log>>

(***************************************************************************)
(* vcpu_insn_exec on several CPUs                                          *)
(***************************************************************************)
\* ctx is one object for all CPUs and the callback takes no lock.  When the
\* host runs the callback for two CPUs at once, the reads and writes of
\* ctx.next_sample_ts by one can fall between those of the other, so the
\* gate test and the advance are taken apart into their accesses to ctx:
\*   "idle"               line 107  gettimeofday(&tv)
\*   "check_sec"          line 108  read of tv_sec for the test <
\*   "check_eq"           line 109  read of tv_sec for the test ==
\*   "check_usec"         line 110  read of tv_usec (only when the seconds
\*                                  were equal)
\*   "advance"            line 112  store of tv.tv_sec
\*   "advance_copy_usec"  line 112  store of tv.tv_usec
\*   "advance_sec"        line 113  read of tv_sec
\*   "advance_sec_store"  line 113  store of the sum
\*   "advance_usec"       line 114  read of tv_usec
\*   "advance_usec_store" line 114  store of the sum
\* and then "registers", "walk", "write" as above.

\* The parts of a run that belong to the gate, lines 107-114, after the
\* call of gettimeofday.
GatePcs ==
    {"check_sec", "check_eq", "check_usec", "advance", "advance_copy_usec",
     "advance_sec", "advance_sec_store", "advance_usec", "advance_usec_store"}

\* The CPUs other than c whose run is between its call of gettimeofday and
\* the end of its advance.
Racing(c) == {o \in VCpus \ {c} : inv[o].pc \in GatePcs}

\* gate_log after a run of CPU c has passed the gate test against the value
\* seen of ctx.next_sample_ts: passed is the set of values runs have passed
\* against, reused tells that a run passed against a value an earlier run
\* had passed against, raced that a run passed while the run of another CPU
\* was in lines 107-114.
LogPass(c, seen) ==
    [passed |-> gate_log.passed \cup {seen},
     reused |-> gate_log.reused \/ seen \in gate_log.passed,
     raced  |-> gate_log.raced \/ Racing(c) # {}]

\* The record of the run of CPU c once it has passed the gate test having
\* read the value seen.
PassedRun(c, seen) ==
    [pc |-> StepAfter("check"), t |-> inv[c].t, tv |-> inv[c].tv, seen |-> seen,
     prev |-> inv[c].prev, cpu |-> inv[c].cpu, mem |-> inv[c].mem,
     eip |-> inv[c].eip, w |-> inv[c].w, done |-> <<"check">>]

\* The run of CPU c returns from the gate test: the delay has not expired.
NotDueReturn(c) ==
    /\ last' = [called |-> TRUE, fired |-> FALSE, now |-> inv[c].t,
                prev |-> inv[c].prev, io |-> NoIo]
    /\ inv' = [inv EXCEPT ![c] = Idle]
    /\ UNCHANGED gate_log

\* Line 107 for CPU c, d microseconds after the previous event.
insn_gettimeofday(c, d, cpu, mem, eip, w) ==
    /\ phase = "installed"
    /\ "vcpu_tb_trans" \in callbacks
    /\ inv[c].pc = "idle"
    /\ clock' = clock + d
    /\ ncalls' = ncalls + 1
    /\ inv' = [inv EXCEPT ![c] =
                  [pc |-> "check_sec", t |-> clock + d,
                   tv |-> gettimeofday(clock + d), prev |-> sample_clock,
                   cpu |-> cpu, mem |-> mem, eip |-> eip, w |-> w]]
    /\ UNCHANGED <<phase, ctxvars, sink, out, callbacks, warnings,
                   sample_clock, last, loader, gate_log>>

\* Line 108 for CPU c: tv.tv_sec < ctx.next_sample_ts.tv_sec, with the
\* value tv_sec has now.  Earlier second: return.
insn_check_sec(c) ==
    /\ inv[c].pc = "check_sec"
    /\ IF inv[c].tv.tv_sec < next_sample_ts.tv_sec
       THEN NotDueReturn(c)
       ELSE /\ inv' = [inv EXCEPT ![c].pc = "check_eq"]
            /\ UNCHANGED <<last, gate_log>>
    /\ UNCHANGED <<phase, ctxvars, sink, out, callbacks, clock, warnings,
                   ncalls, sample_clock, loader>>

\* Line 109 for CPU c: tv.tv_sec == ctx.next_sample_ts.tv_sec, with the
\* value tv_sec has now (read again).  Equal: go on to the microseconds.
\* Not equal: the test is false and the delay is taken to have expired.
insn_check_eq(c) ==
    /\ inv[c].pc = "check_eq"
    /\ IF inv[c].tv.tv_sec = next_sample_ts.tv_sec
       THEN /\ inv' = [inv EXCEPT ![c] =
                          [pc |-> "check_usec",
                           seen_sec |-> next_sample_ts.tv_sec] @@ inv[c]]
            /\ UNCHANGED <<last, gate_log>>
       ELSE /\ inv' = [inv EXCEPT ![c] = PassedRun(c, next_sample_ts)]
            /\ gate_log' = LogPass(c, next_sample_ts)
            /\ UNCHANGED last
    /\ UNCHANGED <<phase, ctxvars, sink, out, callbacks, clock, warnings,
                   ncalls, sample_clock, loader>>

\* The value of ctx.next_sample_ts the test of CPU c has read when it reads
\* the microseconds: the seconds it read on line 109, the microseconds of
\* now.
SeenBy(c) ==
    [tv_sec |-> inv[c].seen_sec, tv_usec |-> next_sample_ts.tv_usec]

\* Line 110 for CPU c: tv.tv_usec < ctx.next_sample_ts.tv_usec, with the
\* value tv_usec has now.
insn_check_usec(c) ==
    /\ inv[c].pc = "check_usec"
    /\ IF inv[c].tv.tv_usec < next_sample_ts.tv_usec
       THEN NotDueReturn(c)
       ELSE /\ inv' = [inv EXCEPT ![c] = PassedRun(c, SeenBy(c))]
            /\ gate_log' = LogPass(c, SeenBy(c))
            /\ UNCHANGED last
    /\ UNCHANGED <<phase, ctxvars, sink, out, callbacks, clock, warnings,
                   ncalls, sample_clock, loader>>

\* What a step of the advance leaves alone.
AdvanceFrame ==
    UNCHANGED <<phase, target_ulong_width, sample_delay, out_fd, sink, out,
                callbacks, clock, warnings, ncalls, sample_clock, last,
                loader, gate_log>>

\* Line 112 for CPU c, the copy of the first member.
insn_advance_copy(c) ==
    /\ inv[c].pc = "advance"
    /\ next_sample_ts' = [next_sample_ts EXCEPT !.tv_sec = inv[c].tv.tv_sec]
    /\ inv' = [inv EXCEPT ![c].pc = "advance_copy_usec"]
    /\ AdvanceFrame

\* Line 112 for CPU c, the copy of the second member.
insn_advance_copy_usec(c) ==
    /\ inv[c].pc = "advance_copy_usec"
    /\ next_sample_ts' = [next_sample_ts EXCEPT !.tv_usec = inv[c].tv.tv_usec]
    /\ inv' = [inv EXCEPT ![c].pc = "advance_sec"]
    /\ AdvanceFrame

\* Line 113 for CPU c: the read of the value ctx holds now.
insn_advance_sec(c) ==
    /\ inv[c].pc = "advance_sec"
    /\ inv' = [inv EXCEPT ![c] = [pc |-> "advance_sec_store",
                                  loaded |-> next_sample_ts.tv_sec] @@ inv[c]]
    /\ UNCHANGED next_sample_ts
    /\ AdvanceFrame

\* The members of a timeval whose values are both v.
Both(v) == [tv_sec |-> v, tv_usec |-> v]

\* Line 113 for CPU c: the store of the sum.
insn_advance_sec_store(c) ==
    /\ inv[c].pc = "advance_sec_store"
    /\ next_sample_ts' =
          [next_sample_ts EXCEPT !.tv_sec =
              NextSampleTs(next_sample_ts, Both(inv[c].loaded), sample_delay).tv_sec]
    /\ inv' = [inv EXCEPT ![c].pc = "advance_usec"]
    /\ AdvanceFrame

\* Line 114 for CPU c: the read of the value ctx holds now.
insn_advance_usec(c) ==
    /\ inv[c].pc = "advance_usec"
    /\ inv' = [inv EXCEPT ![c].pc = "advance_usec_store",
                          ![c].loaded = next_sample_ts.tv_usec]
    /\ UNCHANGED next_sample_ts
    /\ AdvanceFrame

\* Line 114 for CPU c: the store of the sum.
insn_advance_usec_store(c) ==
    /\ inv[c].pc = "advance_usec_store"
    /\ next_sample_ts' =
          [next_sample_ts EXCEPT !.tv_usec =
              NextSampleTs(next_sample_ts, Both(inv[c].loaded), sample_delay).tv_usec]
    /\ inv' = AfterStep(c, "advance", << >>)
    /\ AdvanceFrame

(***************************************************************************)
(* Inputs                                                                  *)
(***************************************************************************)
\* Callbacks delivered in one run of Spec.
MaxCalls == 4

\* Runs of the callback started in one run of SpecSmp.
MaxRuns == 2

\* The memory image of a function from addresses to bytes.
Image(f) == [mapped |-> DOMAIN f, byte |-> f]

\* The bytes of `bytes' at addr.
Poke(addr, bytes) ==
    [a \in addr..(addr + Len(bytes) - 1) |-> bytes[a - addr + 1]]

\* A frame-pointer chain of n frames with pointers of w bytes: frame k
\* (0 <= k < n) lies at base + k * stride and holds the saved frame pointer
\* (the next frame, or term for the last) followed by the return address
\* ret0 + k * stride.  Only the 2 * w bytes of each frame are mapped.
Chain(w, n, base, stride, term, ret0) ==
    Image([a \in {base + k * stride + j : k \in 0..(n - 1), j \in 0..(2 * w - 1)} |->
        LET k == (a - base) \div stride
            j == (a - base) % stride
        IN  IF j < w
            THEN LE(IF k = n - 1 THEN term ELSE base + (k + 1) * stride, w)[j + 1]
            ELSE LE(ret0 + k * stride, w)[j - w + 1]])

\* 0x2000, 0x3000: the first frame and the first return address of the
\* chains.
ChainBase == 32 * 256
ChainRet == 48 * 256

\* The chain of the end-to-end scenario: 0x2000 (return 0x3000) ->
\* 0x4000 (return 0x5000) -> 0x0, unmapped, with 8-byte pointers.
ImgE2E == Chain(8, 2, ChainBase, 8192, 0, ChainRet)

\* A frame at 0x2000 whose saved frame pointer (first 4 bytes) is unmapped
\* and whose following 12 bytes are mapped: the return-address slot can be
\* read in either mode, the saved frame pointer cannot.
ImgRetOnly ==
    Image(Poke(ChainBase + 4, LE(ChainRet, 4) \o LE(ChainRet, 4) \o LE(0, 4)))

\* A readable frame at 0x2000 followed by a frame at 0x2010 of which only
\* the return-address slot is mapped (8-byte pointers).
ImgMidFail ==
    Image(Poke(ChainBase, LE(ChainBase + 16, 8) \o LE(ChainRet, 8))
            @@ Poke(ChainBase + 24, LE(ChainRet + 16, 8)))

\* Cyclic chains: a frame whose saved frame pointer is its own address, at
\* 0x2000 and at address 0.
ImgLoop == Image(Poke(ChainBase, LE(ChainBase, 8) \o LE(ChainRet, 8)))
ImgLoopZero == Image(Poke(0, LE(0, 8) \o LE(ChainRet, 8)))

\* Chain lengths: none, short ones, and those around MAX_DEPTH.
ChainLens == {0, 1, 2, MAX_DEPTH - 1, MAX_DEPTH}

\* Chains of both pointer widths, with adjacent frames and with frames in
\* pages of their own, and the images above.
WalkImages ==
    {Chain(w, n, ChainBase, st, 0, ChainRet) :
        w \in {4, 8}, n \in ChainLens, st \in {16, 4096}}
      \cup {Chain(4, n, ChainBase, 8, 0, ChainRet) : n \in ChainLens}
      \cup {ImgRetOnly, ImgMidFail, ImgLoop, ImgLoopZero}

\* The CPU whose frame-pointer register holds the 8 bytes fp (the low
\* `width' bytes on a target of that width) and whose EFER is efer; the
\* other registers hold 0xAA bytes.
Cpu(width, fp, efer) ==
    [regs |-> [k \in 1..64 |->
                  IF k > REG_FRAME_PTR * width /\ k <= (REG_FRAME_PTR + 1) * width
                  THEN fp[k - REG_FRAME_PTR * width] ELSE 170],
     efer |-> efer]

\* Frame-pointer values: 0x2000, 0, and 2^64 - 8 (frame_ptr + 8 wraps to 0).
FramePtrs == {LE(ChainBase, 8), Zeros(8), <<248, 255, 255, 255, 255, 255, 255, 255>>}

\* EFER values: 0, and LME | LMA (0x500).
Efers == {0, 1280}

\* Instruction pointers: 0x1000 and 0xffffffff80001000.
Eips == {LE(4096, 8), <<0, 16, 0, 128, 255, 255, 255, 255>>}

\* buf with its lower half indeterminate and every byte of its upper half
\* equal to b.
UpperHalf(b) == [k \in 1..8 |-> IF k <= 4 THEN Indet(k) ELSE b]

\* Every content of the uninitialised buf.  The first read writes the lower
\* half before anything is decoded, so only the upper half can show, and
\* it shows in the frames and in the next frame pointer.  The walk goes
\* three ways by it: upper half 0 (the addresses stay below 2^32), upper
\* half 0xffffffff (frame_ptr + 8 can wrap to a low address), and any other
\* upper half, 0x007ffef3 in one process and 0x007ffc0c in the next, with
\* which every address formed from the frame pointer is at or above 2^32,
\* outside the memory images: its bytes are left indeterminate.
Junks == {UpperHalf(0), UpperHalf(255), [k \in 1..8 |-> Indet(k)]}

\* The guest of the end-to-end scenario on a target of the given width: the
\* CPU is in the mode of that width (long mode on x86_64), its frame pointer
\* is 0x2000 and the stack holds the chain 0x2000 -> 0x4000 -> 0x0.
CpuLong == Cpu(8, LE(ChainBase, 8), 1280)
CpuProtected == Cpu(4, LE(ChainBase, 8), 0)
ImgNarrow == Chain(4, 2, ChainBase, 8192, 0, ChainRet)
GuestCpu(width) == IF width = 8 THEN CpuLong ELSE CpuProtected
GuestMem(width) == IF width = 8 THEN ImgE2E ELSE ImgNarrow

\* Behaviours of the file: accepts everything, accepts 1 or 9 bytes (a
\* short write), fails with EIO.
FullWrite == [max |-> 1 + MAX_DEPTH * FRAME_SIZE, errno |-> 0]
Files == {FullWrite, [max |-> 1, errno |-> 0], [max |-> 9, errno |-> 0],
          [max |-> 0, errno |-> 5]}

\* The argument "name=val" as the host passes it.
Arg(name, val) == name \o <<"=">> \o val

ArgOut == <<"o", "u", "t">>
ArgDelay == <<"d", "e", "l", "a", "y">>
ArgFoo == <<"f", "o", "o">>

\* Arguments of the plugin: none; delay=0; out=o delay=1000005; delay=-5;
\* delay=x; delay=<TAB>5; delay=4294967297 (above INT_MAX); foo=1; foo
\* (no '=').
ArgLists ==
    { << >>,
      <<Arg(ArgDelay, <<"0">>)>>,
      <<Arg(ArgOut, <<"o">>),
        Arg(ArgDelay, <<"1", "0", "0", "0", "0", "0", "5">>)>>,
      <<Arg(ArgDelay, <<"-", "5">>)>>,
      <<Arg(ArgDelay, <<"x">>)>>,
      <<Arg(ArgDelay, <<"\t", "5">>)>>,
      <<Arg(ArgDelay, <<"4", "2", "9", "4", "9", "6", "7", "2", "9", "7">>)>>,
      <<Arg(ArgFoo, <<"1">>)>>,
      <<ArgFoo>> }

Targets == {"x86_64", "i386", "aarch64"}

\* Wall-clock times at which the plugin is loaded.
StartClocks == {0, 999995}

\* Time between two events, by sample delay: none, one less than the
\* delay, the delay, more than three delays; none or 1 us for a negative
\* delay.
StepsFor(delay) ==
    IF delay < 0 THEN {0, 1}
    ELSE {d \in {0, delay - 1, delay, 3 * delay + 1} : d >= 0}

(***************************************************************************)
(* Specifications                                                          *)
(***************************************************************************)
Init ==
    /\ phase = "loaded"
    /\ target_ulong_width = 0
    /\ sample_delay = 0
    /\ next_sample_ts = [tv_sec |-> 0, tv_usec |-> 0]
    /\ out_fd = 0
    /\ sink = [state |-> "none", path |-> << >>, opens |-> 0, closes |-> 0]
    /\ out = << >>
    /\ callbacks = {}
    /\ clock \in StartClocks
    /\ warnings = 0
    /\ ncalls = 0
    /\ sample_clock = -1
    /\ last = NoCall
    /\ loader = NoInstall
    /\ inv = [c \in VCpus |-> Idle]
    /\ gate_log = NoRuns

Install ==
    \E target_name \in Targets, argv \in ArgLists, open_errno \in {0, 13} :
        qemu_plugin_install(target_name, argv, open_errno)

\* The host delivers callbacks at varied times; guest state is that of the
\* end-to-end scenario.
Callback ==
    /\ ncalls < MaxCalls
    /\ \E d \in StepsFor(sample_delay), w \in {FullWrite, [max |-> 0, errno |-> 5]},
          junk \in Junks :
          vcpu_insn_exec(d, GuestCpu(target_ulong_width),
                         GuestMem(target_ulong_width), LE(4096, 8), junk, w)

Exit == plugin_exit

Next == Install \/ Callback \/ Exit

Spec == Init /\ [][Next]_vars

\* One sample over varied guest states and files: the plugin is installed
\* with its default arguments at time 0 and the first callback is delivered.
InitWalk == Init /\ clock = 0

InstallWalk ==
    \E target_name \in {"x86_64", "i386"} :
        qemu_plugin_install(target_name, << >>, 0)

FirstCallback ==
    /\ ncalls = 0
    /\ \E fp \in FramePtrs, efer \in Efers, mem \in WalkImages, eip \in Eips,
          junk \in Junks, w \in Files :
          vcpu_insn_exec(0, Cpu(target_ulong_width, fp, efer), mem, eip, junk, w)

NextWalk == InstallWalk \/ FirstCallback \/ Exit

SpecWalk == InitWalk /\ [][NextWalk]_vars

\* The callback statement by statement on one CPU, guest state that of the
\* end-to-end scenario.
CheckStep(c) ==
    /\ ncalls < MaxCalls
    /\ \E d \in StepsFor(sample_delay), w \in {FullWrite, [max |-> 0, errno |-> 5]} :
          insn_check(c, d, GuestCpu(target_ulong_width),
                     GuestMem(target_ulong_width), LE(4096, 8), w)

\* The walk with any content of buf.
WalkStep(c) == \E junk \in Junks : insn_walk(c, junk)

\* The host runs the atexit callback when no instruction callback runs.
ExitSteps == (\A c \in VCpus : inv[c].pc = "idle") /\ plugin_exit

NextSteps ==
    \/ InstallWalk
    \/ CheckStep(0)
    \/ insn_advance(0)
    \/ insn_registers(0)
    \/ WalkStep(0)
    \/ insn_write(0)
    \/ ExitSteps

SpecSteps == InitWalk /\ [][NextSteps]_vars

\* The callback on two CPUs at once: the host starts a run for a CPU that
\* has none in progress, and the runs in progress take their steps in any
\* order.  Runs start at the time of the previous event or one delay later.
\* The plugin is loaded 5 us before the end of a second, so that the first
\* test compares microseconds and the tests one delay later compare
\* seconds.
InitSmp == Init /\ clock = 999995

StartRun(c) ==
    /\ ncalls < MaxRuns
    /\ \E d \in {0, sample_delay} :
          insn_gettimeofday(c, d, GuestCpu(target_ulong_width),
                            GuestMem(target_ulong_width), LE(4096, 8), FullWrite)

StepRun(c) ==
    \/ insn_check_sec(c)
    \/ insn_check_eq(c)
    \/ insn_check_usec(c)
    \/ insn_advance_copy(c)
    \/ insn_advance_copy_usec(c)
    \/ insn_advance_sec(c)
    \/ insn_advance_sec_store(c)
    \/ insn_advance_usec(c)
    \/ insn_advance_usec_store(c)
    \/ insn_registers(c)
    \/ WalkStep(c)
    \/ insn_write(c)

NextSmp ==
    \/ InstallWalk
    \/ \E c \in VCpus : StartRun(c)
    \/ \E c \in VCpus : StepRun(c)
    \/ ExitSteps

SpecSmp == InitSmp /\ [][NextSmp]_vars

\* A stream of samples into files that fail: the plugin is installed with
\* its defaults at time 0; callbacks arrive one delay, or one microsecond
\* less, after the previous event; the CPU is in the mode of the target's
\* width and the guest stack holds the chain 0x2000 -> 0x4000 -> 0x0.
StreamCallback ==
    /\ ncalls < MaxCalls
    /\ \E d \in {sample_delay - 1, sample_delay}, w \in Files, junk \in Junks :
          vcpu_insn_exec(d, GuestCpu(target_ulong_width),
                         GuestMem(target_ulong_width), LE(4096, 8), junk, w)

NextStream == InstallWalk \/ StreamCallback \/ Exit

SpecStream == InitWalk /\ [][NextStream]_vars

(***************************************************************************)
(* The record format read by the aggregator (count:u8 frames:u64[count])   *)
(***************************************************************************)
\* The record at the head of a byte stream: its count and its frames, each
\* the 8 bytes of a native u64; ok is FALSE when the stream is shorter than
\* the record its count byte announces.
ParseRecord(bytes) ==
    IF Len(bytes) = 0 \/ Len(bytes) < 1 + FRAME_SIZE * bytes[1]
    THEN [ok |-> FALSE, count |-> 0, frames |-> << >>]
    ELSE [ok |-> TRUE, count |-> bytes[1],
          frames |-> [k \in 1..bytes[1] |->
                        SubSeq(bytes, 2 + FRAME_SIZE * (k - 1), 1 + FRAME_SIZE * k)]]

\* The records a consumer reads from the start of a byte stream until the
\* end of the file or a truncated record, each with the offset it was read
\* at; pos is the offset of the next record.
RECURSIVE ParseStream(_, _)
ParseStream(bytes, pos) ==
    LET r == ParseRecord(SubSeq(bytes, pos + 1, Len(bytes)))
    IN  IF ~r.ok THEN << >>
        ELSE <<[offset |-> pos, count |-> r.count, frames |-> r.frames]>>
               \o ParseStream(bytes, pos + 1 + FRAME_SIZE * r.count)

(***************************************************************************)
(* Properties                                                              *)
(***************************************************************************)
\* The bytes the latest sample appended to the output file.
Appended == SubSeq(out, last.offset + 1, Len(out))

\* The latest callback took a sample and its writev wrote the whole vector.
FullSample == last.fired /\ last.n = Len(last.iov)

\* C1: a sample of n frames (1 <= n <= 64) whose write completes in full
\* appends exactly the byte n followed by the n * 8 bytes of frames[0..n-1]
\* in capture order, and parsing these bytes as a count-prefixed record
\* gives back n and the same frames.
C1_RoundTrip ==
    (FullSample /\ last.res.i \in 1..MAX_DEPTH) =>
        /\ Len(Appended) = 1 + 8 * last.res.i
        /\ Appended[1] = last.res.i
        /\ \A k \in 1..last.res.i : \A j \in 1..8 :
              Appended[1 + 8 * (k - 1) + j] = last.res.frames[k][j]
        /\ ParseRecord(Appended) =
              [ok |-> TRUE, count |-> last.res.i, frames |-> last.res.frames]

\* A sample of three frames was written in full.
C1_Witness == FullSample /\ last.res.i = 3 /\ Len(Appended) = 25

\* C2: every sample has between 1 and MAX_DEPTH frames, its frame 0 is the
\* instruction pointer passed to the callback, and the count byte of its
\* record is that number of frames.
C2_CountAndFrame0 ==
    last.fired =>
        /\ last.res.i \in 1..MAX_DEPTH
        /\ Len(last.res.frames) = last.res.i
        /\ last.res.frames[1] = last.eip
        /\ last.iov[1] = last.res.i
        /\ Len(last.iov) = 1 + 8 * last.res.i

\* A walk that ran into the depth bound: MAX_DEPTH frames.
C2_Witness ==
    last.fired /\ last.res.stop = "depth" /\ last.res.i = MAX_DEPTH

\* The frame pointer, the mode and the pointer width of the latest sample.
LastFramePtr == get_cpu_register_val(target_ulong_width, last.cpu, REG_FRAME_PTR)
LastWide == in_long_mode(last.cpu)
LastPtrWidth == IF LastWide THEN 8 ELSE 4

\* Every / no byte of the n bytes at address a is mapped.
MappedRange(mem, a, n) == \A j \in 0..(n - 1) : (a + j) \in mem.mapped
UnmappedRange(mem, a, n) == \A j \in 0..(n - 1) : (a + j) \notin mem.mapped

\* The unsigned integer of pw bytes stored at address a, widened to 64 bits.
WordAt(mem, a, pw) ==
    [k \in 1..8 |-> IF k <= pw THEN mem.byte[a + k - 1] ELSE 0]

\* The number of levels of the frame-pointer chain that starts at address a
\* with pointers of pw bytes, n levels being already counted: a frame is a
\* level when its 2 * pw bytes (saved frame pointer, return address) are
\* mapped, and the chain ends with one last level at an address none of
\* whose 2 * pw bytes is mapped.  -1 when the chain leaves the addresses
\* below 2^30 or meets a partly mapped frame; counting stops above
\* MAX_DEPTH + 1.
RECURSIVE ChainLevels(_, _, _, _)
ChainLevels(mem, a, pw, n) ==
    IF n > MAX_DEPTH + 1 THEN n
    ELSE IF a < 0 THEN -1
    ELSE IF MappedRange(mem, a, 2 * pw)
         THEN ChainLevels(mem, SmallVal(WordAt(mem, a, pw)), pw, n + 1)
    ELSE IF UnmappedRange(mem, a, 2 * pw) THEN n + 1
    ELSE -1

\* The return addresses of the first n frames of the chain that starts at a.
RECURSIVE ChainRets(_, _, _, _)
ChainRets(mem, a, pw, n) ==
    IF n = 0 THEN << >>
    ELSE <<WordAt(mem, a + pw, pw)>>
           \o ChainRets(mem, SmallVal(WordAt(mem, a, pw)), pw, n - 1)

\* The levels of the chain the latest sample walked.
LastLevels == ChainLevels(last.mem, SmallVal(LastFramePtr), LastPtrWidth, 0)

\* C7: when guest memory holds a frame-pointer chain of L <= MAX_DEPTH
\* levels that ends at an unreadable address, the walk returns exactly L
\* frames and frame 0 is the instruction pointer.
C7_ChainLength ==
    (last.fired /\ LastLevels \in 1..MAX_DEPTH) =>
        /\ last.res.i = LastLevels
        /\ last.res.frames[1] = last.eip

\* C8: in Wide mode the frames of a readable chain are the instruction
\* pointer followed by the return addresses at frame_ptr + 8 of each frame,
\* innermost first; instruction pointer 0x1000 with the chain 0x2000
\* (return 0x3000) -> 0x4000 (return 0x5000) -> 0x0 gives the record
\* count = 3, frames [0x1000, 0x3000, 0x5000].
C8_WideFrames ==
    (last.fired /\ LastWide /\ LastLevels >= 1) =>
        LET n == IF LastLevels > MAX_DEPTH THEN MAX_DEPTH ELSE LastLevels
        IN  /\ last.res.frames =
                  <<last.eip>> \o ChainRets(last.mem, SmallVal(LastFramePtr), 8, n - 1)
            /\ (last.mem = ImgE2E /\ LastFramePtr = LE(ChainBase, 8)
                  /\ last.eip = LE(4096, 8)) =>
                  last.iov = <<3>> \o LE(4096, 8) \o LE(12288, 8) \o LE(20480, 8)

\* The first read of the latest walk (the return-address slot of the
\* initial frame pointer) fails.
FirstReadFails ==
    cpu_memory_rw_debug(last.mem, Add64(LastFramePtr, LastPtrWidth), Zeros(8),
                        target_ulong_width).err # 0

\* C9: when the very first memory read of a walk fails the sample has
\* length 1 and holds only the instruction pointer, and it is still handed
\* to writev as a record (count byte 1, then the 8 bytes of the instruction
\* pointer), which reaches the file when the write is complete.
C9_FirstReadFails ==
    (last.fired /\ FirstReadFails) =>
        /\ last.res.i = 1
        /\ last.res.frames = <<last.eip>>
        /\ last.res.nreads = 1
        /\ last.iov = <<1>> \o last.eip
        /\ (last.n = Len(last.iov) => Appended = <<1>> \o last.eip)

\* The frame pointer was 0x2000 in unmapped memory and the one-frame record
\* was written in full.
C9_Witness ==
    /\ FullSample /\ FirstReadFails
    /\ LastFramePtr = LE(ChainBase, 8)
    /\ Appended = <<1>> \o last.eip

\* C10: when a read fails in the middle of a walk the sample holds every
\* frame collected before the failure; when the read of the saved frame
\* pointer fails after the return address of the same frame was read, that
\* return address is in the sample and counted in the record.
C10_KeepsDecodedFrame ==
    (last.fired /\ last.res.stop = "fp_fail") =>
        /\ last.res.frames = last.res.stored
        /\ last.iov[1] = Len(last.res.stored)

\* The time a struct timeval denotes, in microseconds.
TsUsec(ts) == ts.tv_sec * USEC_PER_SEC + ts.tv_usec

\* a is before b in the order the gate compares in: seconds, then
\* microseconds.
TsBefore(a, b) ==
    a.tv_sec < b.tv_sec \/ (a.tv_sec = b.tv_sec /\ a.tv_usec < b.tv_usec)

\* C3: with a delay > 0, two consecutive samples are never less than the
\* delay apart in elapsed time, also when the microsecond field of the
\* first plus the delay passes a one-second boundary.
C3_MinimumGap ==
    (last.fired /\ last.prev >= 0 /\ sample_delay > 0) =>
        last.now - last.prev >= sample_delay

\* C4: with a delay >= 0, a callback at least the delay after the latest
\* sample takes a sample; the first callback after install does, and with
\* delay 0 every callback does.
C4_DueFires ==
    (last.called /\ sample_delay >= 0) =>
        /\ (last.prev = -1 \/ last.now - last.prev >= sample_delay) => last.fired
        /\ sample_delay = 0 => last.fired

\* A callback exactly one delay after the previous sample took a sample.
C4_Witness ==
    /\ last.fired /\ sample_delay > 0 /\ last.prev >= 0
    /\ last.now - last.prev = sample_delay

\* C5: with a delay > 0, once the gate is advanced at `now' it is not due at
\* the same `now': the gate test holds the callback back, and a callback
\* that arrives at the time of the latest sample takes none.
C5_NotDueAtSameNow ==
    (sample_delay > 0) =>
        /\ last.fired =>
              TsBefore(gettimeofday(last.now), next_sample_ts)
        /\ (last.called /\ last.prev = last.now) => ~last.fired

\* A callback arrived at the very time of the latest sample and took none.
C5_Witness ==
    /\ last.called /\ ~last.fired /\ sample_delay > 0
    /\ last.prev = last.now

\* C6: with a delay >= 0 the next-due timestamp never decreases, and after
\* each sample it is that callback's time plus the delay (its fields are
\* those of now plus the seconds and the microseconds of the delay),
\* whatever the previous next-due value was.
C6_NextDue ==
    [][(sample_delay >= 0 /\ sample_delay' >= 0) =>
          /\ TsUsec(next_sample_ts') >= TsUsec(next_sample_ts)
          /\ ~TsBefore(next_sample_ts', next_sample_ts)
          /\ (ncalls' = ncalls + 1 /\ last'.fired) =>
                /\ TsUsec(next_sample_ts') = clock' + sample_delay
                /\ next_sample_ts'.tv_sec =
                      gettimeofday(clock').tv_sec + (sample_delay \div USEC_PER_SEC)
                /\ next_sample_ts'.tv_usec =
                      gettimeofday(clock').tv_usec + (sample_delay % USEC_PER_SEC)]_vars

\* A sample taken more than three delays after the previous one: the gate
\* is due one delay later, not at the previous due time plus the delay.
C6_Witness ==
    /\ last.fired /\ sample_delay > 0 /\ last.prev >= 0
    /\ last.now - last.prev > 3 * sample_delay
    /\ TsUsec(next_sample_ts) = last.now + sample_delay

\* The chain of n frames at 0x2000, stride st, stored with pointers of pw
\* bytes: the same logical addresses for pw = 4 and pw = 8.
TwinChain(pw, n, st) == Chain(pw, n, ChainBase, st, 0, ChainRet)

\* C11: a chain of addresses below 2^32 stored with 4-byte pointers and
\* walked in Narrow mode gives the same frames (same number, same 64-bit
\* values) as the same chain stored with 8-byte pointers and walked in Wide
\* mode.
C11_ModeEquivalence ==
    (last.fired /\ ~LastWide /\ LastFramePtr = LE(ChainBase, 8)) =>
        \A n \in ChainLens, st \in {16, 4096} :
            (last.mem = TwinChain(4, n, st)) =>
                \A junk \in Junks :
                    last.res.frames =
                        Walk(target_ulong_width,
                             Cpu(target_ulong_width, LastFramePtr, 1280),
                             TwinChain(8, n, st), last.eip, junk).frames

\* C17: in one sample the offset of the return-address slot, the number of
\* bytes each read asks for and the number of bytes decoded are the pointer
\* width of the mode the CPU is in at that sample, for both target widths:
\* so when the pointer-wide slot above the frame pointer is readable, the
\* first return address of the sample is the pointer-wide word stored there.
C17_WidthOfMode ==
    last.fired =>
        LET pw == PtrWidth(in_long_mode(last.cpu))
            fp == SmallVal(LastFramePtr)
        IN  /\ ReadLen(target_ulong_width, pw) = pw
            /\ (fp >= 0 /\ MappedRange(last.mem, fp + pw, pw)) =>
                  /\ Len(last.res.stored) >= 2
                  /\ last.res.stored[2] = WordAt(last.mem, fp + pw, pw)

\* C19: a sample makes at most MAX_DEPTH reads of guest memory, one
\* register read and one write, however long the chain.
C19_BoundedCost ==
    last.fired =>
        /\ last.io.mem_reads <= MAX_DEPTH
        /\ last.io.reg_reads = 1
        /\ last.io.writes = 1

\* C12: a failed write of a record (a write error or a short write) is
\* reported and does not stop sampling: the gate is advanced as after a
\* successful write, the callbacks stay registered, and every later due
\* callback walks the stack and calls writev.
C12_WriteFailureReported ==
    [][(ncalls' = ncalls + 1) =>
          /\ (last'.fired /\ last'.n # Len(last'.iov)) =>
                /\ warnings' = warnings + 1
                /\ next_sample_ts' =
                      NextSampleTs(next_sample_ts, gettimeofday(clock'), sample_delay)
                /\ phase' = "installed" /\ callbacks' = callbacks
          /\ ~NotExpired(gettimeofday(clock'), next_sample_ts) =>
                last'.fired /\ last'.io.writes = 1]_vars

\* C13: a failure in one sample (a memory-read failure, a write error, a
\* short write) touches only that sample's record: a later record written
\* in full is recovered, with its count and frames, by a consumer that
\* parses the file from its start as count-prefixed records.
C13_LaterRecordsRecovered ==
    FullSample =>
        \E k \in 1..Len(ParseStream(out, 0)) :
            ParseStream(out, 0)[k] =
                [offset |-> last.offset, count |-> last.res.i,
                 frames |-> last.res.frames]

\* An argument of the install call has a name other than out and delay.
\* The name of an argument: what precedes its first '=', all of it when it
\* has none; and its value.
ArgName(a) ==
    LET e == strchr(a, "=", 1) IN IF e = 0 THEN a ELSE SubSeq(a, 1, e - 1)
ArgVal(a) ==
    LET e == strchr(a, "=", 1) IN IF e = 0 THEN << >> ELSE SubSeq(a, e + 1, Len(a))

UnknownArg ==
    \E k \in 1..Len(loader.argv) : ArgName(loader.argv[k]) \notin {ArgOut, ArgDelay}

\* C14: when the target is neither x86_64 nor i386, or an argument name is
\* unknown, or the output file cannot be opened, install returns (it does
\* not end the process) a failure and registers no callback, so no sample
\* is taken; for an unsupported target the output file is not opened.
C14_FailedInstall ==
    loader.called =>
        /\ (loader.target_name \notin {"x86_64", "i386"} \/ UnknownArg
               \/ loader.open_errno # 0) =>
              /\ ~loader.crashed /\ loader.ret # 0
              /\ callbacks = {}
              /\ ncalls = 0 /\ sample_clock = -1 /\ out = << >>
        /\ (loader.target_name \notin {"x86_64", "i386"}) =>
              sink.opens = 0 /\ sink.state = "none"

\* The string is a decimal number: an optional sign, then digits only.
IsNumber(s) ==
    LET k == IF Len(s) > 0 /\ s[1] \in {"-", "+"} THEN 2 ELSE 1
    IN  k <= Len(s) /\ \A j \in k..Len(s) : DigitVal(s[j]) >= 0

\* C15: a delay argument that is not a number, or is negative, is a fatal
\* startup error: install fails and registers no callback.
C15_BadDelayFatal ==
    (loader.called /\ \E k \in 1..Len(loader.argv) :
          /\ ArgName(loader.argv[k]) = ArgDelay
          /\ (~IsNumber(ArgVal(loader.argv[k]))
                 \/ atoi(ArgVal(loader.argv[k])) < 0)) =>
        /\ loader.ret # 0
        /\ phase = "failed"
        /\ callbacks = {}

\* C16: over a run install, callbacks, shutdown with no callback after the
\* shutdown, the output file is opened once, before the first sample, never
\* reopened, closed once at shutdown, and no record is written while it is
\* not open.
C16_SinkLifecycle ==
    [][/\ sink'.opens <= 1 /\ sink'.closes <= sink'.opens
       /\ (ncalls' > 0 => sink'.opens = 1)
       /\ (phase' = "exited" =>
              sink'.opens = 1 /\ sink'.closes = 1 /\ sink'.state = "closed")
       /\ (sink.state = "closed" => sink' = sink)
       /\ (out' # out => sink.state = "open" /\ sink'.state = "open")]_vars

\* A run that wrote records and was shut down: the file is closed.
C16_Witness ==
    phase = "exited" /\ Len(out) > 0 /\ sink.opens = 1 /\ sink.closes = 1

\* C20: a callback that finds the gate not due changes nothing: the
\* next-due timestamp and the output are unchanged and it reads no register,
\* no memory and writes nothing; the next-due timestamp changes only in a
\* callback that takes a sample (and when install sets it).
C20_NotDueNoEffect ==
    [][/\ (ncalls' = ncalls + 1 /\ TsBefore(gettimeofday(clock'), next_sample_ts)) =>
              /\ ~last'.fired
              /\ last'.io = NoIo
              /\ UNCHANGED <<next_sample_ts, out, warnings, sample_clock>>
       /\ (next_sample_ts' # next_sample_ts) =>
              \/ ncalls' = ncalls + 1 /\ last'.fired
              \/ ~loader.called /\ loader'.called]_vars

\* A callback arrived after a sample and before the next was due, and did
\* nothing.
C20_Witness ==
    /\ last.called /\ ~last.fired /\ last.io = NoIo
    /\ last.prev >= 0 /\ last.now > last.prev /\ Len(out) > 0

\* The parts of a finished run of the callback in the order the claim
\* gives them.
OrderAdvanceLast == <<"check", "registers", "walk", "write", "advance">>

\* The run of the callback for CPU c has returned after taking a sample.
Returned(c) == inv[c].pc = "idle" /\ inv[c] # Idle

\* C18: a due callback checks the gate, reads the registers,
\* walks the stack, writes the record and only then advances the gate; the
\* next-due timestamp holds its old value while the stack is walked and
\* the record written.
C18_AdvanceAfterWrite ==
    \A c \in VCpus :
        /\ inv[c].pc \in {"registers", "walk", "write"} =>
              next_sample_ts = inv[c].seen
        /\ Returned(c) => inv[c].done = OrderAdvanceLast

\* C21: the walk stops only on a failed memory read or at the depth bound,
\* never because of the value of the frame pointer (zero, low, repeating):
\* on a chain readable up to the bound, a frame whose saved frame pointer
\* is its own address included, it runs MAX_DEPTH - 1 rounds and returns
\* exactly MAX_DEPTH frames.
C21_StopsOnFailureOrDepth ==
    last.fired =>
        /\ last.res.stop \in {"depth", "ret_fail", "fp_fail"}
        /\ (last.res.stop = "depth") = (last.res.i = MAX_DEPTH)
        /\ (LastLevels >= MAX_DEPTH) =>
              /\ last.res.stop = "depth"
              /\ last.res.i = MAX_DEPTH
              /\ last.res.nreads = 2 * (MAX_DEPTH - 1)

\* C22: the gate and the output file are shared by the CPUs without
\* synchronisation, and the gate test and the advance of one run are not
\* atomic for another: a run passes the gate against a next-due value an
\* earlier run has passed against (two samples for one due time) only when
\* some run has passed the gate while the run of another CPU was in its
\* gate test or its advance (lines 107-114).  With one stream of runs, none
\* overlapping another, that never happens.
C22_DoubleSampleOnlyWhenRaced ==
    gate_log.reused => gate_log.raced

\* Two runs, one per CPU, that overlapped passed the gate against the same
\* next-due value, less than one delay apart, and both wrote their record.
C22_Witness ==
    /\ gate_log.reused /\ gate_log.raced
    /\ Returned(0) /\ Returned(1)
    /\ inv[0].seen = inv[1].seen
    /\ inv[0].t - inv[1].t < sample_delay
    /\ inv[1].t - inv[0].t < sample_delay
    /\ Len(ParseStream(out, 0)) >= 2

=============================================================================
